---- MODULE Spec2Model ----
(***************************************************************************)
(* GPTQ/AWQ -> Marlin repacking                                            *)
(* (server/text_generation_server/layers/marlin/gptq.py).                  *)
(*                                                                         *)
(* Tensors are records [layout, k, n, vals]: k rows, n columns, vals the   *)
(* row-major flattening of the entries (torch's ravel order).  A packed    *)
(* 32-bit word is the sequence of its 32/bits lanes, lane i (1-based)      *)
(* holding bits [(i-1)*bits, i*bits).  The contents of qweight and scales  *)
(* are read only by the native kernels, so those tensors carry a shape     *)
(* and an empty vals.  The module assumes the Marlin kernels are loaded    *)
(* (_check_marlin_kernels passes, quantization is not None) and that the   *)
(* stored tensors have the dtypes GPTQMarlinWeight.__post_init__ asserts.  *)
(***************************************************************************)
EXTENDS Integers, Sequences, FiniteSets, TLC

VARIABLES loader, weights, call, result

vars == <<loader, weights, call, result>>

(***************************************************************************)
(* Program constants.                                                      *)
(***************************************************************************)
GPTQ_MARLIN_BITS == {4, 8}

GPTQ_MARLIN_GROUP_SIZES == {-1, 32, 64, 128}

MARLIN_TILE_SIZE == 16

(***************************************************************************)
(* Bounds of the model.                                                    *)
(***************************************************************************)
\* in_features of the layer of a direct repack call: 16*i for i in 1..MaxInUnits
MaxInUnits == 8

\* longest g_idx handed to a direct repack call
MaxGIdxLen == 3

\* largest process group
MaxWorld == 2

\* longest prefixes list given to get_multi_weights_col
MaxPrefixes == 2

\* largest integer block_sizes given to get_weights_col_packed
MaxBlocks == 2

\* largest zero-point value in the enumerated packed words
MaxZp == 1

\* rows (groups) of the packed zero-points handed to awq_to_marlin_zero_points
MaxZpRows == 2

\* largest in_features / out_features handed to _check_valid_shape
MaxShapeDim == 128

\* largest row count of a repacked qweight handed to GPTQMarlinLinear
MaxTileRows == 16

\* largest out_features (in units of 32) of a weight handed to GPTQMarlinLinear
MaxOutUnits == 8

(***************************************************************************)
(* Python integer arithmetic: // and % round towards minus infinity, also  *)
(* for a negative divisor (groupsize = -1).                                *)
(***************************************************************************)
PyFloorDiv(a, b) ==
  IF b > 0 THEN a \div b ELSE (0 - a) \div (0 - b)

PyMod(a, b) ==
  a - b * PyFloorDiv(a, b)

(***************************************************************************)
(* Tensors.                                                                *)
(***************************************************************************)
Tensor(layout, k, n, vals) ==
  [layout |-> layout, k |-> k, n |-> n, vals |-> vals]

\* Python's None
NoneT == Tensor("none", 0, 0, <<>>)

\* torch.empty(0, dtype=torch.int)
EmptyT == Tensor("empty", 0, 0, <<>>)

IsNone(t) == t.layout = "none"

Numel(t) == t.k * t.n

(***************************************************************************)
(* Outcomes of a call: a returned value or a raised exception.             *)
(***************************************************************************)
Ok(v) == [ok |-> TRUE, err |-> "none", val |-> v]

Err(e) == [ok |-> FALSE, err |-> e, val |-> NoneT]

(***************************************************************************)
(* Native primitives of layers/marlin/util.py and of the quantization      *)
(* kernels, modelled from their contracts.                                 *)
(***************************************************************************)
\* unpack_cols(packed, bits, k, n): one integer per cell of the (k, n)
\* matrix; column c of a row comes from lane c % pack_factor of word
\* c // pack_factor.  Fails when the packed tensor is not (k, n // pack_factor).
unpack_cols(packed_q_w, num_bits, size_k, size_n) ==
  LET pack_factor == 32 \div num_bits
  IN IF size_n % pack_factor # 0
        \/ packed_q_w.k # size_k
        \/ packed_q_w.n # size_n \div pack_factor
     THEN Err("unpack_shape")
     ELSE Ok(Tensor("unpacked", size_k, size_n,
                    [i \in 1..(size_k * size_n) |->
                       LET r == (i - 1) \div size_n
                           c == (i - 1) % size_n
                       IN packed_q_w.vals[r * packed_q_w.n + (c \div pack_factor) + 1]
                                         [(c % pack_factor) + 1]]))

\* the inverse of unpack_cols: pack a (k, n) matrix of integers column-wise
pack_cols(q_w, num_bits, size_k, size_n) ==
  LET pack_factor == 32 \div num_bits
      words == size_n \div pack_factor
  IN Tensor("packed_cols", size_k, words,
            [w \in 1..(size_k * words) |->
               LET r == (w - 1) \div words
                   j == (w - 1) % words
               IN [l \in 1..pack_factor |->
                     q_w.vals[r * size_n + j * pack_factor + l]]])

\* marlin_zero_points(zp, k, n, bits): the canonical (Marlin) packing of the
\* naturally ordered (k, n) zero-point matrix zp.  The tile and lane order is
\* the kernel's; the result is identified by the matrix it packs.
marlin_zero_points(zp, size_k, size_n, num_bits) ==
  Tensor("marlin_zp", size_k, size_n \div (32 \div num_bits), zp.vals)

\* permute_scales(scales): tile-order permutation, shape preserved
permute_scales(scales) ==
  Tensor("marlin_scales", scales.k, scales.n, scales.vals)

\* quantization.awq_marlin_repack(qweight, K, N, bits)
awq_marlin_repack(qweight, size_k, size_n, num_bits) ==
  Tensor("marlin_qweight", size_k \div MARLIN_TILE_SIZE,
         (size_n * MARLIN_TILE_SIZE) \div (32 \div num_bits), <<>>)

\* quantization.gptq_marlin_repack(qweight, perm, K, N, bits)
gptq_marlin_repack(qweight, perm, size_k, size_n, num_bits) ==
  Tensor("marlin_qweight", size_k \div MARLIN_TILE_SIZE,
         (size_n * MARLIN_TILE_SIZE) \div (32 \div num_bits), <<>>)

(***************************************************************************)
(* Sorting.                                                                *)
(***************************************************************************)
\* numpy.argsort of a sequence of distinct values: position r holds the
\* 0-based index of the r-th smallest value
numpy_argsort(s) ==
  [r \in 1..Len(s) |->
     (CHOOSE i \in 1..Len(s) :
        Cardinality({j \in 1..Len(s) : s[j] < s[i]}) = r - 1) - 1]

\* torch.argsort(g) without stable=True: any permutation of the 0-based
\* indices that sorts g; the order among equal keys is unspecified
torch_argsort(g) ==
  {p \in [1..Len(g) -> 0..(Len(g) - 1)] :
     /\ \A i, j \in 1..Len(g) : i # j => p[i] # p[j]
     /\ \A i, j \in 1..Len(g) : i < j => g[p[i] + 1] <= g[p[j] + 1]}

\* t[idx] for a 1-D tensor and a 0-based index sequence
Gather(vals, idx) ==
  [i \in 1..Len(idx) |-> vals[idx[i] + 1]]

\* flat.reshape((-1, len(idx)))[:, idx].ravel()
ReorderRows(flat, idx) ==
  [i \in 1..Len(flat) |->
     flat[((i - 1) \div Len(idx)) * Len(idx) + idx[((i - 1) % Len(idx)) + 1] + 1]]

(***************************************************************************)
(* awq_to_marlin_zero_points                                               *)
(***************************************************************************)
\* the order in which AWQ stores the lanes of a word
AwqInterleave(num_bits) ==
  IF num_bits = 4 THEN <<0, 2, 4, 6, 1, 3, 5, 7>> ELSE <<0, 2, 1, 3>>

UndoInterleaveShuffled(num_bits) ==
  AwqInterleave(num_bits)

\* undo_interleave = numpy.argsort(numpy.array([...]))
UndoInterleave(num_bits) ==
  numpy_argsort(AwqInterleave(num_bits))

awq_to_marlin_zero_points(q_zp_packed, size_k, size_n, num_bits) ==
  LET q_zp == unpack_cols(q_zp_packed, num_bits, size_k, size_n)
  IN IF ~q_zp.ok THEN [ok |-> FALSE, err |-> q_zp.err, val |-> NoneT,
                       steps |-> <<"unpack_cols">>]
     ELSE IF num_bits \notin {4, 8}
     THEN [ok |-> FALSE, err |-> "num_bits", val |-> NoneT,
           steps |-> <<"unpack_cols">>]
     ELSE LET undone == Tensor("unpacked", size_k, size_n,
                               ReorderRows(q_zp.val.vals, UndoInterleave(num_bits)))
          IN [ok |-> TRUE, err |-> "none",
              val |-> marlin_zero_points(undone, size_k, size_n, num_bits),
              steps |-> <<"unpack_cols", "undo_interleave", "marlin_zero_points">>]

(***************************************************************************)
(* repack_gptq_for_marlin                                                  *)
(***************************************************************************)
\* @dataclass GPTQMarlinWeight
GPTQMarlinWeight(qweight, qzeros, scales, g_idx, perm, bits, is_full_k) ==
  [qweight |-> qweight, qzeros |-> qzeros, scales |-> scales, g_idx |-> g_idx,
   perm |-> perm, bits |-> bits, is_full_k |-> is_full_k]

NoWeight == GPTQMarlinWeight(NoneT, NoneT, NoneT, NoneT, NoneT, 0, FALSE)

\* what a call left behind: the returned weight or the raised error, whether
\* the error text carries the "make sure the model is already quantized"
\* hint, whether repack_gptq_for_marlin was entered, the zero-point
\* primitives that ran, in order, and (value) what a function that returns
\* no GPTQMarlinWeight returned
Returned(w, steps) ==
  [status |-> "ok", err |-> "none", hint |-> FALSE, repack_called |-> TRUE,
   weight |-> w, zp_steps |-> steps, value |-> NoneT]

Raised(e, hint, called, steps) ==
  [status |-> "error", err |-> e, hint |-> hint, repack_called |-> called,
   weight |-> NoWeight, zp_steps |-> steps, value |-> NoneT]

NoResult ==
  [status |-> "none", err |-> "none", hint |-> FALSE, repack_called |-> FALSE,
   weight |-> NoWeight, zp_steps |-> <<>>, value |-> NoneT]

AsymAllowedAnyMethod(sym, quant_method) ==
  TRUE

\* sym or quant_method == "awq" or quant_method == "compressed-tensors"
AsymAllowed(sym, quant_method) ==
  sym \/ quant_method = "awq" \/ quant_method = "compressed-tensors"

InFeaturesUnscaled(qweight, quant_method, bits) ==
  qweight.k

\* in_features = qweight.shape[0], times weights_per_int unless AWQ
InFeatures(qweight, quant_method, bits) ==
  IF quant_method = "awq" THEN qweight.k ELSE qweight.k * (32 \div bits)

\* out_features = qweight.shape[1], times weights_per_int for AWQ
OutFeatures(qweight, quant_method, bits) ==
  IF quant_method = "awq" THEN qweight.n * (32 \div bits) ELSE qweight.n

UsesPermIgnoringDescAct(g_idx, desc_act, groupsize) ==
  ~IsNone(g_idx) /\ groupsize # -1

\* g_idx is not None and desc_act and groupsize != -1
UsesPerm(g_idx, desc_act, groupsize) ==
  ~IsNone(g_idx) /\ desc_act /\ groupsize # -1

IsFullKIgnoringGroupsize(desc_act, groupsize, sharded_infeatures) ==
  ~(desc_act /\ sharded_infeatures)

\* is_full_k = not (desc_act and groupsize != -1 and sharded_infeatures)
IsFullK(desc_act, groupsize, sharded_infeatures) ==
  ~(desc_act /\ groupsize # -1 /\ sharded_infeatures)

\* the possible outcomes of one call; they differ only in the order
\* torch.argsort gives to input channels of the same group
repack_gptq_for_marlin(qweight, qzeros, scales, g_idx, bits, desc_act, groupsize, quant_method, sym, sharded_infeatures) ==
  IF bits \notin GPTQ_MARLIN_BITS THEN {Raised("bits", FALSE, TRUE, <<>>)}
  ELSE IF groupsize \notin GPTQ_MARLIN_GROUP_SIZES
  THEN {Raised("groupsize", FALSE, TRUE, <<>>)}
  ELSE IF ~AsymAllowed(sym, quant_method)
  THEN {Raised("asym", FALSE, TRUE, <<>>)}
  ELSE
    LET in_features == InFeatures(qweight, quant_method, bits)
        out_features == OutFeatures(qweight, quant_method, bits)
    IN IF PyMod(in_features, groupsize) # 0
       THEN {Raised("divisible", FALSE, TRUE, <<>>)}
       ELSE
         LET perms == IF UsesPerm(g_idx, desc_act, groupsize)
                      THEN torch_argsort(g_idx.vals)
                      ELSE {<<>>}
             zp == IF quant_method = "awq" /\ ~IsNone(qzeros)
                   THEN awq_to_marlin_zero_points(
                          qzeros, PyFloorDiv(in_features, groupsize),
                          out_features, bits)
                   ELSE [ok |-> TRUE, err |-> "none", val |-> qzeros,
                         steps |-> <<>>]
             is_full_k == IsFullK(desc_act, groupsize, sharded_infeatures)
         IN IF ~zp.ok THEN {Raised(zp.err, FALSE, TRUE, zp.steps)}
            ELSE
              {Returned(
                 GPTQMarlinWeight(
                   IF quant_method = "awq"
                   THEN awq_marlin_repack(qweight, in_features, out_features, bits)
                   ELSE gptq_marlin_repack(qweight, perm, in_features,
                                           out_features, bits),
                   IF IsNone(zp.val) THEN EmptyT ELSE zp.val,
                   permute_scales(scales),
                   IF UsesPerm(g_idx, desc_act, groupsize)
                   THEN Tensor("int", Len(perm), 1, Gather(g_idx.vals, perm))
                   ELSE EmptyT,
                   IF UsesPerm(g_idx, desc_act, groupsize)
                   THEN Tensor("int", Len(perm), 1, perm)
                   ELSE EmptyT,
                   bits, is_full_k),
                 zp.steps) : perm \in perms}

(***************************************************************************)
(* Storage (utils/weights.py Weights), modelled from its contract: tensor  *)
(* lookup by name f"{prefix}.{name}", whole or sliced for this rank of the *)
(* process group.  A missing tensor raises RuntimeError ("lookup"); a      *)
(* dimension the process group does not divide fails an assertion          *)
(* ("shard").  torch.cat raises RuntimeError ("cat") on an empty list and  *)
(* on tensors whose sizes differ outside the concatenated dimension.       *)
(***************************************************************************)
\* rows start..stop-1 of t
SliceRows(t, start, stop) ==
  Tensor(t.layout, stop - start, t.n,
         IF Len(t.vals) = 0 THEN <<>>
         ELSE SubSeq(t.vals, start * t.n + 1, stop * t.n))

\* the columns cols (0-based, in that order) of t
SelectCols(t, cols) ==
  Tensor(t.layout, t.k, Len(cols),
         IF Len(t.vals) = 0 THEN <<>>
         ELSE [i \in 1..(t.k * Len(cols)) |->
                 t.vals[((i - 1) \div Len(cols)) * t.n
                        + cols[((i - 1) % Len(cols)) + 1] + 1]])

\* torch.cat([a, b], dim=1)
Cat2(a, b) ==
  Tensor(a.layout, a.k, a.n + b.n,
         IF Len(a.vals) = 0 /\ Len(b.vals) = 0 THEN <<>>
         ELSE [i \in 1..(a.k * (a.n + b.n)) |->
                 LET r == (i - 1) \div (a.n + b.n)
                     c == (i - 1) % (a.n + b.n)
                 IN IF c < a.n THEN a.vals[r * a.n + c + 1]
                    ELSE b.vals[r * b.n + (c - a.n) + 1]])

RECURSIVE CatCols(_)
\* torch.cat(ts, dim=1) of a non-empty list
CatCols(ts) ==
  IF Len(ts) = 1 THEN ts[1]
  ELSE Cat2(CatCols(SubSeq(ts, 1, Len(ts) - 1)), ts[Len(ts)])

\* torch.cat(ts, dim=1)
torch_cat(ts) ==
  IF Len(ts) = 0 THEN Err("cat")
  ELSE IF \E i \in 1..Len(ts) : ts[i].k # ts[1].k THEN Err("cat")
  ELSE Ok(CatCols(ts))

\* torch.testing.assert_close(actual, expected) of two integer tensors
assert_close(actual, expected) ==
  actual.k = expected.k /\ actual.n = expected.n /\ actual.vals = expected.vals

get_tensor(prefix, name) ==
  IF IsNone(weights.tensors[prefix][name]) THEN Err("lookup")
  ELSE Ok(weights.tensors[prefix][name])

get_sharded(prefix, name, dim) ==
  LET t == weights.tensors[prefix][name]
      size == IF dim = 0 THEN t.k ELSE t.n
      block == size \div weights.world_size
      start == weights.rank * block
  IN IF IsNone(t) THEN Err("lookup")
     ELSE IF size % weights.world_size # 0 THEN Err("shard")
     ELSE IF dim = 0 THEN Ok(SliceRows(t, start, start + block))
     ELSE Ok(SelectCols(t, [i \in 1..block |-> start + i - 1]))

\* block_sizes is an int: that many equal blocks along dim 1, each sliced
\* for this rank
get_packed_sharded(prefix, name, block_sizes) ==
  LET t == weights.tensors[prefix][name]
      block == t.n \div block_sizes
      shard == block \div weights.world_size
  IN IF IsNone(t) THEN Err("lookup")
     ELSE IF t.n % block_sizes # 0 \/ block % weights.world_size # 0
     THEN Err("shard")
     ELSE Ok(SelectCols(t, [i \in 1..(block_sizes * shard) |->
                              ((i - 1) \div shard) * block
                              + weights.rank * shard + ((i - 1) % shard)]))

\* the first exception of a list comprehension over the lookups rs
FirstFailure(rs) ==
  rs[CHOOSE i \in DOMAIN rs : ~rs[i].ok /\ \A j \in 1..(i - 1) : rs[j].ok]

\* torch.cat([weights.get_sharded(f"{p}.<name>", dim=1) for p in prefixes], dim=1):
\* the lookups are made prefix by prefix, then the slices are concatenated
get_sharded_cat(name, prefixes) ==
  LET rs == [i \in 1..Len(prefixes) |-> get_sharded(prefixes[i], name, 1)]
  IN IF \E i \in DOMAIN rs : ~rs[i].ok THEN FirstFailure(rs)
     ELSE torch_cat([i \in DOMAIN rs |-> rs[i].val])

\* w = [weights.get_tensor(f"{p}.g_idx") for p in prefixes]; every w2 of w[1:]
\* is asserted close to w[0]; g_idx = w[0]
get_g_idx_all(prefixes) ==
  LET w == [i \in 1..Len(prefixes) |-> get_tensor(prefixes[i], "g_idx")]
  IN IF \E i \in DOMAIN w : ~w[i].ok THEN FirstFailure(w)
     ELSE IF \E i \in 2..Len(w) : ~assert_close(w[i].val, w[1].val)
     THEN Err("assert_close")
     ELSE IF Len(w) = 0 THEN Err("index")
     ELSE w[1]

(***************************************************************************)
(* GPTQMarlinWeightsLoader                                                 *)
(***************************************************************************)
QweightErrorUnwrapped(r) ==
  Raised(r.err, FALSE, FALSE, <<>>)

\* the failures that are raised as RuntimeError
RuntimeErrors == {"lookup", "cat"}

\* try: qweight = ... except RuntimeError: raise RuntimeError("Cannot load
\* ... make sure the model is already quantized"); an assertion failure is
\* not a RuntimeError and passes through
QweightError(r) ==
  IF r.err \in RuntimeErrors THEN Raised("not_quantized", TRUE, FALSE, <<>>)
  ELSE Raised(r.err, FALSE, FALSE, <<>>)

\* an exception of a lookup outside the try block
Propagated(r) ==
  Raised(r.err, FALSE, FALSE, <<>>)

\* the common tail of the entry points once every lookup has been issued
LoadAndRepack(qweight, qzeros, g_idx, scales, order, sharded_infeatures) ==
  IF ~qweight.ok THEN {QweightError(qweight)}
  ELSE
    LET failed == {i \in 1..Len(order) : ~order[i].ok}
    IN IF failed # {}
       THEN {Propagated(order[CHOOSE i \in failed : \A j \in failed : i <= j])}
       ELSE repack_gptq_for_marlin(
              qweight.val, qzeros.val, scales.val, g_idx.val, loader.bits,
              loader.desc_act, loader.groupsize, loader.quant_method,
              loader.sym, sharded_infeatures)

get_weights(prefix) ==
  LET qweight == get_tensor(prefix, "qweight")
      qzeros == IF ~loader.sym THEN get_tensor(prefix, "qzeros") ELSE Ok(NoneT)
      g_idx == IF loader.quant_method = "awq" THEN Ok(NoneT)
               ELSE get_tensor(prefix, "g_idx")
      scales == get_tensor(prefix, "scales")
  IN LoadAndRepack(qweight, qzeros, g_idx, scales,
                   <<qzeros, g_idx, scales>>, FALSE)

get_weights_col_packed(prefix, block_sizes) ==
  LET qweight == get_packed_sharded(prefix, "qweight", block_sizes)
      scales == get_packed_sharded(prefix, "scales", block_sizes)
      qzeros == IF ~loader.sym
                THEN get_packed_sharded(prefix, "qzeros", block_sizes)
                ELSE Ok(NoneT)
      g_idx == IF loader.quant_method = "awq" THEN Ok(NoneT)
               ELSE get_tensor(prefix, "g_idx")
  IN LoadAndRepack(qweight, qzeros, g_idx, scales,
                   <<scales, qzeros, g_idx>>, FALSE)

get_multi_weights_col(prefixes) ==
  LET qweight == get_sharded_cat("qweight", prefixes)
      scales == get_sharded_cat("scales", prefixes)
      qzeros == IF ~loader.sym THEN get_sharded_cat("qzeros", prefixes)
                ELSE Ok(NoneT)
      g_idx == IF loader.quant_method = "awq" THEN Ok(NoneT)
               ELSE get_g_idx_all(prefixes)
  IN LoadAndRepack(qweight, qzeros, g_idx, scales,
                   <<scales, qzeros, g_idx>>, FALSE)

\* sharded_in_features = weights.process_group.size() > 1
ShardedInFeatures(world_size) ==
  world_size > 1

get_weights_row(prefix) ==
  LET whole == loader.desc_act \/ loader.groupsize = -1
      qweight == get_sharded(prefix, "qweight", 0)
      qzeros == IF ~loader.sym
                THEN IF whole THEN get_tensor(prefix, "qzeros")
                     ELSE get_sharded(prefix, "qzeros", 0)
                ELSE Ok(NoneT)
      g_idx == IF loader.quant_method = "awq" THEN Ok(NoneT)
               ELSE get_sharded(prefix, "g_idx", 0)
      scales == IF whole THEN get_tensor(prefix, "scales")
                ELSE get_sharded(prefix, "scales", 0)
  IN LoadAndRepack(qweight, qzeros, g_idx, scales,
                   <<qzeros, g_idx, scales>>,
                   ShardedInFeatures(weights.world_size))

(***************************************************************************)
(* Inputs: stored checkpoints and loader configurations.                   *)
(***************************************************************************)
Names == {"qweight", "qzeros", "scales", "g_idx"}

BitsDomain == {2, 4, 8}

GroupSizeDomain == {-1, 16, 32, 64, 128}

MethodDomain == {"awq", "gptq", "compressed-tensors"}

\* out_features of the stored layers
StoredOutFeatures == {64}

\* the packed zero-points of a (groups, out_features) layer: lane l of the
\* word at (g, j) holds (g + j + l) mod 2^bits
StoredQzeros(groups, out_features, bits) ==
  LET pack_factor == 32 \div bits
      words == out_features \div pack_factor
  IN Tensor("packed_cols", groups, words,
            [w \in 1..(groups * words) |->
               [l \in 1..pack_factor |->
                  (((w - 1) \div words) + ((w - 1) % words) + l) % (2 ^ bits)]])

\* the number of quantization groups of in_features input channels
Groups(in_features, groupsize) ==
  IF groupsize > 0 THEN (in_features + groupsize - 1) \div groupsize ELSE 1

\* the input channels of one quantization group (-1: one channel more)
GroupSpan(groupsize) ==
  IF groupsize > 0 THEN groupsize ELSE 1

\* the tensors a quantizer of the given method writes for one linear layer
\* with in_features x out_features logical weights
Checkpoint(bits, groupsize, quant_method, in_features, out_features, g) ==
  LET pack_factor == 32 \div bits
      groups == Groups(in_features, groupsize)
  IN [qweight |-> IF quant_method = "awq"
                  THEN Tensor("packed_cols", in_features,
                              out_features \div pack_factor, <<>>)
                  ELSE Tensor("packed_rows", in_features \div pack_factor,
                              out_features, <<>>),
      qzeros |-> StoredQzeros(groups, out_features, bits),
      scales |-> Tensor("float", groups, out_features, <<>>),
      g_idx |-> Tensor("int", Len(g), 1, g)]

\* in_features of the stored layers
StoredInFeatures == {64, 128}

\* the group index of the stored layers
StoredGIdx == <<1, 0, 1, 0>>

\* the group index of a stored layer quantized with another channel order
SiblingGIdx == <<0, 1, 0, 1>>

\* the prefixes a caller names: the layer under load, three sibling layers of
\* the same checkpoint and a layer the checkpoint does not hold
MainPrefix == "q_proj"

Prefixes == {"q_proj", "k_proj", "gate_proj", "up_proj", "v_proj"}

\* the checkpoint, given the layer main under load, a layer other of another
\* in_features and a layer grown with more quantization groups: q_proj is
\* main without the tensors of missing; k_proj has the shapes of main and
\* another group index; gate_proj is other; up_proj is main with the scales
\* and zero-points of grown; v_proj is not stored
StoredLayers(main, other, grown, missing) ==
  [p \in Prefixes |->
     CASE p = "q_proj" -> [nm \in Names |->
                             IF nm \in missing THEN NoneT ELSE main[nm]]
       [] p = "k_proj" -> [main EXCEPT !.g_idx = Tensor("int", Len(SiblingGIdx),
                                                        1, SiblingGIdx)]
       [] p = "gate_proj" -> other
       [] p = "up_proj" -> [main EXCEPT !.scales = grown.scales,
                                        !.qzeros = grown.qzeros]
       [] OTHER -> [nm \in Names |-> NoneT]]

\* the lists of prefixes get_multi_weights_col is called with: at most
\* MaxPrefixes prefixes, at most one of them not the layer under load
PrefixLists ==
  {ps \in UNION {[1..m -> Prefixes] : m \in 0..MaxPrefixes} :
     Cardinality({i \in DOMAIN ps : ps[i] # MainPrefix}) <= 1}

\* the configurations a loader is built with
LoaderBitsDomain == {4, 8}

LoaderGroupSizeDomain == {-1, 16, 32, 128}

NoLoader ==
  [bits |-> 0, desc_act |-> FALSE, groupsize |-> 0, quant_method |-> "none",
   quantize |-> "none", sym |-> TRUE]

NoWeights ==
  [tensors |-> [p \in Prefixes |-> [nm \in Names |-> NoneT]],
   world_size |-> 1, rank |-> 0]

NoCall == [op |-> "none", arg |-> 0]

(***************************************************************************)
(* Spec: the loader entry points over a stored checkpoint.                 *)
(***************************************************************************)
Init ==
  /\ \E bits \in LoaderBitsDomain, groupsize \in LoaderGroupSizeDomain,
        quant_method \in MethodDomain, desc_act \in BOOLEAN, sym \in BOOLEAN :
       /\ loader = [bits |-> bits, desc_act |-> desc_act,
                    groupsize |-> groupsize, quant_method |-> quant_method,
                    quantize |-> quant_method, sym |-> sym]
       /\ \E in_features \in StoredInFeatures,
             out_features \in StoredOutFeatures :
            \E main \in {Checkpoint(bits, groupsize, quant_method,
                                     in_features, out_features, StoredGIdx)},
               other \in {Checkpoint(
                           bits, groupsize, quant_method,
                           CHOOSE x \in StoredInFeatures : x # in_features,
                           out_features, StoredGIdx)},
               grown \in {Checkpoint(
                           bits, groupsize, quant_method,
                           in_features + GroupSpan(groupsize), out_features,
                           StoredGIdx)} :
              \E missing \in SUBSET Names, world_size \in 1..MaxWorld :
                \E rank \in 0..(world_size - 1) :
                  weights =
                    [tensors |-> StoredLayers(main, other, grown, missing),
                     world_size |-> world_size, rank |-> rank]
  /\ call = NoCall
  /\ result = NoResult

GetWeights ==
  /\ result.status = "none"
  /\ call' = [op |-> "get_weights", arg |-> 0]
  /\ \E r \in get_weights(MainPrefix) : result' = r
  /\ UNCHANGED <<loader, weights>>

GetWeightsColPacked ==
  /\ result.status = "none"
  /\ \E block_sizes \in 1..MaxBlocks :
       /\ call' = [op |-> "get_weights_col_packed", arg |-> block_sizes]
       /\ \E r \in get_weights_col_packed(MainPrefix, block_sizes) : result' = r
  /\ UNCHANGED <<loader, weights>>

GetMultiWeightsCol ==
  /\ result.status = "none"
  /\ \E prefixes \in PrefixLists :
       /\ call' = [op |-> "get_multi_weights_col", arg |-> prefixes]
       /\ \E r \in get_multi_weights_col(prefixes) : result' = r
  /\ UNCHANGED <<loader, weights>>

GetWeightsRow ==
  /\ result.status = "none"
  /\ call' = [op |-> "get_weights_row", arg |-> 0]
  /\ \E r \in get_weights_row(MainPrefix) : result' = r
  /\ UNCHANGED <<loader, weights>>

\* a caller that hands the stored tensors to repack_gptq_for_marlin itself,
\* None for an optional tensor it does not have, and states whether the
\* input features are sharded (arg = 1) or not (arg = 0)
RepackStored ==
  /\ result.status = "none"
  /\ ~IsNone(weights.tensors[MainPrefix]["qweight"])
  /\ ~IsNone(weights.tensors[MainPrefix]["scales"])
  /\ \E sharded_infeatures \in BOOLEAN :
       /\ call' = [op |-> "repack_gptq_for_marlin",
                   arg |-> IF sharded_infeatures THEN 1 ELSE 0]
       /\ \E r \in repack_gptq_for_marlin(
                     weights.tensors[MainPrefix]["qweight"],
                     weights.tensors[MainPrefix]["qzeros"],
                     weights.tensors[MainPrefix]["scales"],
                     weights.tensors[MainPrefix]["g_idx"],
                     loader.bits, loader.desc_act, loader.groupsize,
                     loader.quant_method, loader.sym, sharded_infeatures) :
            result' = r
  /\ UNCHANGED <<loader, weights>>

Next ==
  \/ GetWeights
  \/ GetWeightsColPacked
  \/ GetMultiWeightsCol
  \/ GetWeightsRow
  \/ RepackStored

Spec == Init /\ [][Next]_vars

(***************************************************************************)
(* SpecRepack: direct calls of repack_gptq_for_marlin.                     *)
(***************************************************************************)
InitIdle ==
  /\ loader = NoLoader
  /\ weights = NoWeights
  /\ call = NoCall
  /\ result = NoResult

GroupIds == {0, 1}

\* None, or a group index of up to MaxGIdxLen channels
GIdxDomain ==
  {NoneT} \cup
  UNION {{Tensor("int", n, 1, g) : g \in [1..n -> GroupIds]} : n \in 0..MaxGIdxLen}

RepackCall ==
  /\ result.status = "none"
  /\ \E bits \in BitsDomain, groupsize \in GroupSizeDomain,
        quant_method \in MethodDomain, desc_act \in BOOLEAN, sym \in BOOLEAN,
        sharded_infeatures \in BOOLEAN, iu \in 1..MaxInUnits,
        g_idx \in GIdxDomain, out_features \in StoredOutFeatures :
       \E src \in {Checkpoint(bits, groupsize, quant_method, 16 * iu,
                              out_features, <<>>)} :
       \* zero-points are stored exactly for asymmetric quantization
       \E qzeros \in {IF sym THEN NoneT ELSE src.qzeros} :
          /\ call' = [op |-> "repack_gptq_for_marlin", qweight |-> src.qweight,
                      qzeros |-> qzeros, scales |-> src.scales,
                      g_idx |-> g_idx, bits |-> bits, desc_act |-> desc_act,
                      groupsize |-> groupsize, quant_method |-> quant_method,
                      sym |-> sym, sharded_infeatures |-> sharded_infeatures]
          /\ \E r \in repack_gptq_for_marlin(
                        src.qweight, qzeros, src.scales, g_idx, bits, desc_act,
                        groupsize, quant_method, sym, sharded_infeatures) :
               result' = r
  /\ UNCHANGED <<loader, weights>>

NextRepack ==
  RepackCall

SpecRepack == InitIdle /\ [][NextRepack]_vars

(***************************************************************************)
(* SpecZp: calls of awq_to_marlin_zero_points.                             *)
(***************************************************************************)
ZpBitsDomain == {2, 4, 8, 16}

\* the lanes of one packed word
ZpWords(num_bits) ==
  IF num_bits \in {4, 8} THEN [1..(32 \div num_bits) -> 0..MaxZp]
  ELSE {[l \in 1..(32 \div num_bits) |-> 0],
        [l \in 1..(32 \div num_bits) |-> (l - 1) % (2 ^ num_bits)]}

\* packed (rows, 1) zero-points: the word of row hot is w, the others count
\* their lanes
ZpPacked(num_bits, rows, hot, w) ==
  Tensor("packed_cols", rows, 1,
         [r \in 1..rows |->
            IF r = hot THEN w
            ELSE [l \in 1..(32 \div num_bits) |-> (l - 1) % (2 ^ num_bits)]])

AwqToMarlinZeroPointsCall ==
  /\ result.status = "none"
  /\ \E num_bits \in ZpBitsDomain, rows \in 1..MaxZpRows, size_k \in 1..MaxZpRows :
       \E hot \in 1..rows, w \in ZpWords(num_bits) :
         LET q_zp_packed == ZpPacked(num_bits, rows, hot, w)
             size_n == 32 \div num_bits
             r == awq_to_marlin_zero_points(q_zp_packed, size_k, size_n, num_bits)
         IN /\ call' = [op |-> "awq_to_marlin_zero_points",
                        q_zp_packed |-> q_zp_packed, size_k |-> size_k,
                        size_n |-> size_n, num_bits |-> num_bits]
            /\ result' = [status |-> IF r.ok THEN "ok" ELSE "error",
                          err |-> r.err, hint |-> FALSE,
                          repack_called |-> FALSE, weight |-> NoWeight,
                          zp_steps |-> r.steps, value |-> r.val]
  /\ UNCHANGED <<loader, weights>>

NextZp ==
  AwqToMarlinZeroPointsCall

SpecZp == InitIdle /\ [][NextZp]_vars

(***************************************************************************)
(* SpecShape: _check_valid_shape and GPTQMarlinLinear.__init__.            *)
(***************************************************************************)
check_valid_shape_or(in_features, out_features) ==
  ~((in_features % 128 # 0 \/ out_features % 64 # 0)
    \/ (in_features % 64 # 0 \/ out_features % 128 # 0))

\* TRUE when _check_valid_shape returns, FALSE when it raises ValueError
check_valid_shape(in_features, out_features) ==
  ~((in_features % 128 # 0 \/ out_features % 64 # 0)
    /\ (in_features % 64 # 0 \/ out_features % 128 # 0))

\* GPTQMarlinLinear.__init__(weight, bias): the scalar type it selects, or
\* the error it raises
GPTQMarlinLinear(weight) ==
  LET in_features == weight.qweight.k * MARLIN_TILE_SIZE
      out_features == weight.scales.n
  IN IF ~check_valid_shape(in_features, out_features) THEN Err("shape")
     ELSE IF weight.bits \notin {4, 8} THEN Err("bits")
     ELSE Ok([layout |-> "linear", k |-> in_features, n |-> out_features,
              vals |-> <<>>,
              quant_type |->
                IF Numel(weight.qzeros) > 0
                THEN IF weight.bits = 4 THEN "uint4" ELSE "uint8"
                ELSE IF weight.bits = 4 THEN "uint4b8" ELSE "uint8b128",
              is_full_k |-> weight.is_full_k,
              workspace |-> (out_features \div 64) * 16])

CheckValidShapeCall ==
  /\ result.status = "none"
  /\ \E in_features \in 0..MaxShapeDim, out_features \in 0..MaxShapeDim :
       /\ call' = [op |-> "_check_valid_shape", in_features |-> in_features,
                   out_features |-> out_features]
       /\ result' = IF check_valid_shape(in_features, out_features)
                    THEN [NoResult EXCEPT !.status = "ok"]
                    ELSE Raised("shape", FALSE, FALSE, <<>>)
  /\ UNCHANGED <<loader, weights>>

LinearInit ==
  /\ result.status = "none"
  /\ \E rows \in 0..MaxTileRows, ou \in 0..MaxOutUnits, bits \in BitsDomain,
        has_zp \in BOOLEAN, is_full_k \in BOOLEAN :
       LET weight ==
             GPTQMarlinWeight(
               Tensor("marlin_qweight", rows,
                      (32 * ou * MARLIN_TILE_SIZE) \div (32 \div bits), <<>>),
               IF has_zp
               THEN Tensor("marlin_zp", 1, (32 * ou) \div (32 \div bits), <<>>)
               ELSE EmptyT,
               Tensor("marlin_scales", 1, 32 * ou, <<>>),
               EmptyT, EmptyT, bits, is_full_k)
           r == GPTQMarlinLinear(weight)
       IN /\ call' = [op |-> "GPTQMarlinLinear", weight |-> weight,
                      in_features |-> rows * MARLIN_TILE_SIZE,
                      out_features |-> 32 * ou]
          /\ result' = [status |-> IF r.ok THEN "ok" ELSE "error",
                        err |-> r.err, hint |-> FALSE,
                        repack_called |-> FALSE, weight |-> NoWeight,
                        zp_steps |-> <<>>, value |-> r.val]
  /\ UNCHANGED <<loader, weights>>

NextShape ==
  \/ CheckValidShapeCall
  \/ LinearInit

SpecShape == InitIdle /\ [][NextShape]_vars

(***************************************************************************)
(* Properties.                                                             *)
(***************************************************************************)
LoaderOps ==
  {"get_weights", "get_weights_col_packed", "get_multi_weights_col",
   "get_weights_row"}

Done == result.status # "none"

\* in_features as the claims state it: rows of a column-packed (awq) qweight,
\* rows times 32/bits of a row-packed one
ClaimedInFeatures ==
  IF call.quant_method = "awq" THEN call.qweight.k
  ELSE call.qweight.k * (32 \div call.bits)

\* C1: a call with bits outside {4, 8} or groupsize outside {-1, 32, 64, 128}
\* fails and returns no weight, and a call with a supported pair on a validly
\* shaped source (in_features a multiple of groupsize, or groupsize = -1;
\* symmetric, or asymmetric with method awq) returns a GPTQMarlinWeight.
C1_SupportedPairsSucceed ==
  Done =>
    /\ (call.bits \notin {4, 8} \/ call.groupsize \notin {-1, 32, 64, 128})
         => (result.status = "error" /\ result.weight = NoWeight)
    /\ (/\ call.bits \in {4, 8}
        /\ call.groupsize \in {-1, 32, 64, 128}
        /\ (call.groupsize = -1 \/ ClaimedInFeatures % call.groupsize = 0)
        /\ (call.sym \/ call.quant_method = "awq"))
         => result.status = "ok"

\* C2 as stated: with supported bits and groupsize, a call with sym = false
\* and a method other than awq fails and returns no weight.
C2_AsymOnlyAwq ==
  (/\ Done
   /\ call.bits \in {4, 8}
   /\ call.groupsize \in {-1, 32, 64, 128}
   /\ ~call.sym
   /\ call.quant_method # "awq")
    => (result.status = "error" /\ result.weight = NoWeight)

\* C2 amended: with supported bits and groupsize, a call with sym = false and
\* a method other than awq and compressed-tensors fails with the asymmetry
\* error and returns no weight; that error is raised for no other call.
C2_AsymOnlyAwqOrCompressedTensors ==
  (Done /\ call.bits \in {4, 8} /\ call.groupsize \in {-1, 32, 64, 128})
    => /\ (~call.sym /\ call.quant_method \notin {"awq", "compressed-tensors"})
            => (/\ result.status = "error"
                /\ result.err = "asym"
                /\ result.weight = NoWeight)
       /\ result.err = "asym"
            => (~call.sym
                /\ call.quant_method \notin {"awq", "compressed-tensors"})

C2_Witness ==
  /\ Done
  /\ call.bits = 4
  /\ call.groupsize = 128
  /\ ~call.sym
  /\ call.quant_method = "gptq"
  /\ result.err = "asym"

\* C3: among the calls that pass the bit-width, group-size and symmetry
\* checks, the divisibility error is raised exactly when groupsize is not -1
\* and in_features (rows for awq, rows * 32/bits otherwise) is not a multiple
\* of groupsize; with groupsize = -1 it is never raised.
C3_DivisibilityCheck ==
  (Done /\ result.err \notin {"bits", "groupsize", "asym"})
    => /\ (result.err = "divisible")
            <=> (call.groupsize # -1
                 /\ ClaimedInFeatures % call.groupsize # 0)
       /\ call.groupsize = -1 => result.err # "divisible"
       /\ result.err = "divisible"
            => (result.status = "error" /\ result.weight = NoWeight)

C3_Witness ==
  /\ Done
  /\ result.err = "divisible"
  /\ call.quant_method = "gptq"
  /\ call.bits = 4
  /\ call.qweight.k = 12
  /\ call.groupsize = 64

\* C4: a returned weight has is_full_k = false exactly when desc_act holds,
\* groupsize is not -1 and the input features are sharded; get_weights,
\* get_weights_col_packed and get_multi_weights_col always give is_full_k =
\* true, and get_weights_row gives false only in a process group of more
\* than one member.
C4_IsFullK ==
  (Done /\ result.status = "ok")
    => LET sharded == IF call.op = "get_weights_row"
                      THEN weights.world_size > 1
                      ELSE call.op = "repack_gptq_for_marlin" /\ call.arg = 1
       IN /\ result.weight.is_full_k
               <=> ~(loader.desc_act /\ loader.groupsize # -1 /\ sharded)
          /\ call.op \in LoaderOps \ {"get_weights_row"}
               => result.weight.is_full_k
          /\ (call.op = "get_weights_row" /\ ~result.weight.is_full_k)
               => weights.world_size > 1

C4_Witness ==
  /\ result.status = "ok"
  /\ call.op = "get_weights_row"
  /\ weights.world_size > 1
  /\ loader.desc_act
  /\ ~result.weight.is_full_k

\* C5: a weight returned through a loader entry point has empty qzeros for a
\* symmetric source, and for an asymmetric source non-empty qzeros in the
\* Marlin zero-point layout with logical shape
\* (in_features / groupsize, out_features).
C5_QzerosCanonical ==
  (call.op \in LoaderOps /\ result.status = "ok")
    => LET w == result.weight
           in_features == w.qweight.k * MARLIN_TILE_SIZE
           out_features == w.scales.n
       IN /\ loader.sym => Numel(w.qzeros) = 0
          /\ ~loader.sym
               => /\ Numel(w.qzeros) > 0
                  /\ w.qzeros.layout = "marlin_zp"
                  /\ w.qzeros.k = PyFloorDiv(in_features, loader.groupsize)
                  /\ w.qzeros.n * (32 \div w.bits) = out_features

\* C6: in a returned weight, when g_idx was given, desc_act holds and
\* groupsize is not -1, perm is a permutation of 0..len(g_idx)-1 and the
\* emitted g_idx is the given one reordered by perm and is non-decreasing;
\* otherwise perm and g_idx are both empty; never is one empty and the other
\* not.
C6_PermAndGIdx ==
  (Done /\ result.status = "ok")
    => LET w == result.weight
           n == call.g_idx.k
           active == /\ ~IsNone(call.g_idx)
                     /\ call.desc_act
                     /\ call.groupsize # -1
       IN /\ active
               => /\ Len(w.perm.vals) = n
                  /\ {w.perm.vals[i] : i \in 1..n} = 0..(n - 1)
                  /\ Len(w.g_idx.vals) = n
                  /\ \A i \in 1..n :
                       w.g_idx.vals[i] = call.g_idx.vals[w.perm.vals[i] + 1]
                  /\ \A i \in 1..(n - 1) :
                       w.g_idx.vals[i] <= w.g_idx.vals[i + 1]
          /\ ~active => (Numel(w.perm) = 0 /\ Numel(w.g_idx) = 0)
          /\ (Numel(w.perm) = 0) <=> (Numel(w.g_idx) = 0)

C6_Witness ==
  /\ result.status = "ok"
  /\ ~IsNone(call.g_idx)
  /\ call.desc_act
  /\ call.groupsize = 32
  /\ call.g_idx.vals = <<1, 0, 1>>
  /\ result.weight.perm.vals = <<1, 2, 0>>
  /\ result.weight.g_idx.vals = <<0, 1, 1>>

\* C7: _check_valid_shape, called directly or by GPTQMarlinLinear, returns
\* iff (in_features mod 128 = 0 and out_features mod 64 = 0) or
\* (in_features mod 64 = 0 and out_features mod 128 = 0), and raises otherwise.
C7_ValidShape ==
  Done
    => ((result.err # "shape")
          <=> \/ (call.in_features % 128 = 0 /\ call.out_features % 64 = 0)
              \/ (call.in_features % 64 = 0 /\ call.out_features % 128 = 0))
       /\ (call.op = "_check_valid_shape"
             => (result.status = "ok" <=> result.err # "shape"))

C7_Witness ==
  /\ call.op = "_check_valid_shape"
  /\ call.in_features = 127
  /\ call.out_features = 64
  /\ result.status = "error"
  /\ result.err = "shape"

\* the tensors the configured source needs
Required ==
  {"qweight", "scales"}
    \cup (IF loader.sym THEN {} ELSE {"qzeros"})
    \cup (IF loader.quant_method = "awq" THEN {} ELSE {"g_idx"})

\* the prefixes the call names
Requested ==
  IF call.op = "get_multi_weights_col" THEN call.arg ELSE <<MainPrefix>>

Absent(prefix, nm) == IsNone(weights.tensors[prefix][nm])

\* a required tensor of a requested prefix is absent
SomeAbsent ==
  \E i \in DOMAIN Requested, nm \in Required : Absent(Requested[i], nm)

QweightAbsent ==
  \E i \in DOMAIN Requested : Absent(Requested[i], "qweight")

\* the stored qweights of two requested prefixes differ in their row count
QweightRowsDiffer ==
  \E i, j \in DOMAIN Requested :
    /\ ~Absent(Requested[i], "qweight")
    /\ ~Absent(Requested[j], "qweight")
    /\ weights.tensors[Requested[i]]["qweight"].k
         # weights.tensors[Requested[j]]["qweight"].k

\* C8 as stated: in every loader entry point, when a required tensor is
\* absent the load fails with the error that carries the "make sure the model
\* is already quantized" hint and repack_gptq_for_marlin is not invoked.
C8_MissingTensorHint ==
  (call.op \in LoaderOps /\ SomeAbsent)
    => (result.status = "error" /\ result.hint /\ ~result.repack_called)

\* C8 amended: in every loader entry point, when a required tensor of a
\* requested prefix is absent the load fails and repack_gptq_for_marlin is not
\* invoked.  The error carries the hint only when loading qweight raised a
\* RuntimeError: in get_weights, get_weights_col_packed and get_weights_row
\* exactly when qweight is absent; in get_multi_weights_col only when the
\* prefix list is empty, a requested qweight is absent or the requested
\* qweights differ in their row count (so also with every qweight present),
\* and always so when the list is empty, the first qweight is absent, or the
\* process group has one member and a qweight is absent or the row counts
\* differ.  A failure without the hint while a required tensor is absent is
\* the lookup, slicing or concatenation failure itself.
C8_MissingTensorFails ==
  call.op \in LoaderOps
    => /\ SomeAbsent => (result.status = "error" /\ ~result.repack_called)
       /\ result.hint
            => /\ result.status = "error"
               /\ result.err = "not_quantized"
               /\ ~result.repack_called
               /\ (Requested = <<>> \/ QweightAbsent \/ QweightRowsDiffer)
       /\ call.op # "get_multi_weights_col"
            => (result.hint <=> QweightAbsent)
       /\ call.op = "get_multi_weights_col"
            => /\ (Requested = <<>> \/ Absent(Requested[1], "qweight"))
                    => result.hint
               /\ (weights.world_size = 1
                     /\ (QweightAbsent \/ QweightRowsDiffer))
                    => result.hint
       /\ (SomeAbsent /\ ~result.hint)
            => result.err \in {"lookup", "shard", "cat"}

\* scales of the layer under load is absent, every requested qweight is
\* stored, and the concatenation of the qweights raises the hint error
C8_Witness ==
  /\ call.op = "get_multi_weights_col"
  /\ Len(Requested) = 2
  /\ ~QweightAbsent
  /\ QweightRowsDiffer
  /\ Absent(MainPrefix, "scales")
  /\ result.status = "error"
  /\ result.err = "not_quantized"
  /\ result.hint
  /\ ~result.repack_called

\* the shuffle AWQ applies to the lanes of a word, as the claim gives it
C9Shuffle(num_bits) ==
  IF num_bits = 4 THEN <<0, 2, 4, 6, 1, 3, 5, 7>> ELSE <<0, 2, 1, 3>>

\* C9: for num_bits 4 and 8 the rows are reordered by the inverse of the
\* shuffle: re-applying the shuffle to the naturally ordered values the
\* function packs gives back the unpacked input, and packing that gives back
\* the packed input; every other num_bits fails and returns no zero-points.
C9_UndoInvertsShuffle ==
  Done
    => /\ call.num_bits \notin {4, 8}
            => (result.status = "error" /\ IsNone(result.value))
       /\ (call.num_bits \in {4, 8} /\ call.size_k = call.q_zp_packed.k)
            => /\ result.status = "ok"
               /\ LET unpacked == unpack_cols(call.q_zp_packed, call.num_bits,
                                              call.size_k, call.size_n).val
                      reshuffled == ReorderRows(result.value.vals,
                                                C9Shuffle(call.num_bits))
                  IN /\ reshuffled = unpacked.vals
                     /\ pack_cols(Tensor("unpacked", call.size_k, call.size_n,
                                         reshuffled),
                                  call.num_bits, call.size_k, call.size_n).vals
                          = call.q_zp_packed.vals

C9_Witness ==
  /\ result.status = "ok"
  /\ call.num_bits = 4
  /\ call.q_zp_packed.k = 2
  /\ call.q_zp_packed.vals[2] = <<0, 1, 0, 0, 0, 0, 0, 0>>
  /\ result.value.vals[8 + 3] = 1

\* zero-points were handed to repack_gptq_for_marlin
ZeroPointsGiven ==
  \/ (call.op \in LoaderOps /\ ~loader.sym)
  \/ /\ call.op = "repack_gptq_for_marlin"
     /\ ~IsNone(weights.tensors[MainPrefix]["qzeros"])

\* C10: a weight returned for a source with zero-points had them unpacked,
\* un-shuffled and repacked (awq) or unpacked and repacked (other methods);
\* the packed source zero-points are never placed in the result as they are.
C10_ZeroPointsReinterleaved ==
  (result.status = "ok" /\ ZeroPointsGiven)
    => /\ loader.quant_method = "awq"
            => result.zp_steps
                 = <<"unpack_cols", "undo_interleave", "marlin_zero_points">>
       /\ loader.quant_method # "awq"
            => result.zp_steps = <<"unpack_cols", "marlin_zero_points">>
       /\ result.weight.qzeros.layout = "marlin_zp"

====
